---- MODULE Spec2Model ----
(***************************************************************************)
(* State-machine model of the terminal log monitor (src/src/main.rs): the  *)
(* App struct, its methods, and the poll / key-handling steps of main's    *)
(* loop.  Text is modelled as sequences of one-character strings (ASCII),  *)
(* so that slicing, case folding and substring search are computed.        *)
(***************************************************************************)
EXTENDS Naturals, Integers, Sequences, FiniteSets, TLC

\* ------------------------------------------------------------------------
\* Bounds of the model
\* ------------------------------------------------------------------------
\* capacity of the store (App::new sets 1000; scaled down)
max_lines == 2
\* argument of initialize_logs in main (100; scaled down)
num_lines == 1
\* largest number of lines the log file holds
MaxFile == 3
\* largest length of the filter text typed by the user
MaxFilter == 1
\* largest number of lines handed to add_log_line in one run
MaxIngest == 5
\* longest prefix of the stamped line used to build sample lines
MaxStampLen == 24
\* longest filter index of the scrolling runs (more than a page)
MaxView == 12
\* tallest list area of the drawing runs
MaxRows == 3

\* ------------------------------------------------------------------------
\* Program constants
\* ------------------------------------------------------------------------
UpdateIntervalMs == 500
PollTimeoutMs == 100
PageSize == 10
TabCount == 3

\* ------------------------------------------------------------------------
\* Text
\* ------------------------------------------------------------------------
UpperChars == <<"A","B","C","D","E","F","G","H","I","J","K","L","M",
                "N","O","P","Q","R","S","T","U","V","W","X","Y","Z">>
LowerChars == <<"a","b","c","d","e","f","g","h","i","j","k","l","m",
                "n","o","p","q","r","s","t","u","v","w","x","y","z">>

\* char::to_lowercase restricted to ASCII
LowerChar(c) ==
    IF \E k \in 1..26 : UpperChars[k] = c
    THEN LowerChars[CHOOSE k \in 1..26 : UpperChars[k] = c]
    ELSE c

\* str::to_lowercase
to_lowercase(s) == [k \in 1..Len(s) |-> LowerChar(s[k])]

\* str::contains(&str): sub occurs in s as a contiguous run
contains(s, sub) ==
    \E k \in 1..(Len(s) + 1) :
        /\ k + Len(sub) - 1 <= Len(s)
        /\ \A j \in 1..Len(sub) : s[k + j - 1] = sub[j]

KwAsl == <<"A","S","L"," ","S","e","n","d","e","r"," ","S","t","a","t","i","s","t","i","c","s">>
KwError == <<"e","r","r","o","r">>
KwFail == <<"f","a","i","l">>
KwException == <<"e","x","c","e","p","t","i","o","n">>
KwWarn == <<"w","a","r","n">>
KwDebug == <<"d","e","b","u","g">>
KwNotice == <<"n","o","t","i","c","e">>
KwInfo == <<"i","n","f","o">>

\* variant: the notice/info rule is tried before the error rule
from_line_info_first(line) ==
    IF contains(line, KwAsl) THEN "Info"
    ELSE LET line_lower == to_lowercase(line) IN
         IF contains(line_lower, KwNotice) \/ contains(line_lower, KwInfo) THEN "Info"
         ELSE IF contains(line_lower, KwError) \/ contains(line_lower, KwFail)
               \/ contains(line_lower, KwException) THEN "Error"
         ELSE IF contains(line_lower, KwWarn) THEN "Warning"
         ELSE IF contains(line_lower, KwDebug) THEN "Debug"
         ELSE "Unknown"

\* LogLevel::from_line
from_line(line) ==
    IF contains(line, KwAsl) THEN "Info"
    ELSE LET line_lower == to_lowercase(line) IN
         IF contains(line_lower, KwError) \/ contains(line_lower, KwFail)
               \/ contains(line_lower, KwException) THEN "Error"
         ELSE IF contains(line_lower, KwWarn) THEN "Warning"
         ELSE IF contains(line_lower, KwDebug) THEN "Debug"
         ELSE IF contains(line_lower, KwNotice) \/ contains(line_lower, KwInfo) THEN "Info"
         ELSE "Unknown"

\* line.chars().nth(n): 0-based, None past the end
nth(line, n) == IF n + 1 <= Len(line) THEN line[n + 1] ELSE "None"

\* the condition of add_log_line under which the line is sliced
HasStampShape(line) ==
    Len(line) > 15 /\ nth(line, 10) = " " /\ nth(line, 13) = ":"

\* line[0..19] is evaluated on a line shorter than 19 bytes: slice index
\* out of range, the thread panics
add_log_line_panics(line) == HasStampShape(line) /\ Len(line) < 19

\* the timestamp add_log_line extracts (when it does not panic)
extract_timestamp(line) ==
    IF HasStampShape(line) THEN SubSeq(line, 1, 19) ELSE <<>>

\* the LogLine add_log_line builds
LogLine(line) ==
    [content |-> line, timestamp |-> extract_timestamp(line),
     level |-> from_line(line), highlighted |-> FALSE]

\* Vec::remove(0)
RemoveFirst(s) == SubSeq(s, 2, Len(s))

\* mutant: evicts the newest entry instead of the oldest
add_log_line_evict_last(logs, line) ==
    LET pushed == Append(logs, LogLine(line)) IN
    IF Len(pushed) > max_lines THEN SubSeq(pushed, 1, Len(pushed) - 1) ELSE pushed

\* App::add_log_line on a line that does not panic: push, then evict the
\* oldest entry when the store exceeds max_lines
add_log_line(logs, line) ==
    LET pushed == Append(logs, LogLine(line)) IN
    IF Len(pushed) > max_lines THEN RemoveFirst(pushed) ELSE pushed

\* the loops of initialize_logs / update_logs: add_log_line on each line
RECURSIVE add_all(_, _)
add_all(logs, lines) ==
    IF lines = <<>> THEN logs
    ELSE add_all(add_log_line(logs, Head(lines)), Tail(lines))

\* some line of the batch makes add_log_line panic
any_panics(lines) == \E k \in 1..Len(lines) : add_log_line_panics(lines[k])

\* positions (0-based, as in the code) whose content matches, ascending
RECURSIVE matching_indices(_, _, _)
matching_indices(logs, needle, k) ==
    IF k > Len(logs) THEN <<>>
    ELSE IF contains(to_lowercase(logs[k].content), needle)
         THEN <<k - 1>> \o matching_indices(logs, needle, k + 1)
         ELSE matching_indices(logs, needle, k + 1)

\* mutant: the filter text is not lower-cased before matching
update_filter_raw_needle(logs, text) ==
    IF text = <<>> THEN [k \in 1..Len(logs) |-> k - 1]
    ELSE matching_indices(logs, text, 1)

\* App::update_filter: the new value of filtered_logs
update_filter(logs, text) ==
    IF text = <<>> THEN [k \in 1..Len(logs) |-> k - 1]
    ELSE matching_indices(logs, to_lowercase(text), 1)

\* number of entries of a level
count_level(logs, lvl) == Cardinality({k \in 1..Len(logs) : logs[k].level = lvl})

\* entries that go into an hour bucket, and their hour label
has_hour(entry) == Len(entry.timestamp) >= 13
\* variant: the slice starts one character early
hour_of_one_early(entry) == SubSeq(entry.timestamp, 11, 12)
hour_of(entry) == SubSeq(entry.timestamp, 12, 13)

entries_by_hour(logs) ==
    LET hours == {hour_of(logs[k]) : k \in {j \in 1..Len(logs) : has_hour(logs[j])}} IN
    [h \in hours |->
        Cardinality({k \in 1..Len(logs) : has_hour(logs[k]) /\ hour_of(logs[k]) = h})]

\* mutant: the info tally filters on the Warning level (copy-paste slip)
update_stats_info_as_warning(logs) ==
    [total_entries |-> Len(logs),
     error_count |-> count_level(logs, "Error"),
     warning_count |-> count_level(logs, "Warning"),
     info_count |-> count_level(logs, "Warning"),
     debug_count |-> count_level(logs, "Debug"),
     unknown_count |-> count_level(logs, "Unknown"),
     entries_by_hour |-> entries_by_hour(logs)]

\* App::update_stats: the new value of stats
update_stats(logs) ==
    [total_entries |-> Len(logs),
     error_count |-> count_level(logs, "Error"),
     warning_count |-> count_level(logs, "Warning"),
     info_count |-> count_level(logs, "Info"),
     debug_count |-> count_level(logs, "Debug"),
     unknown_count |-> count_level(logs, "Unknown"),
     entries_by_hour |-> entries_by_hour(logs)]

\* the stats App::new builds
EmptyStats ==
    [total_entries |-> 0, error_count |-> 0, warning_count |-> 0,
     info_count |-> 0, debug_count |-> 0, unknown_count |-> 0,
     entries_by_hour |-> entries_by_hour(<<>>)]

\* mutant: scroll is snapped before the filter index is recomputed
ingest_scroll_first(logs, filtered, text, follow, sc, new_lines) ==
    LET logs2 == add_all(logs, new_lines) IN
    [log_lines |-> logs2,
     stats |-> update_stats(logs2),
     filtered_logs |-> update_filter(logs2, text),
     scroll |-> IF follow THEN Len(filtered) ELSE sc]

\* the body of update_logs taken when the file has more lines than the
\* store: append, update_stats, update_filter, then autoscroll
ingest(logs, filtered, text, follow, sc, new_lines) ==
    LET logs2 == add_all(logs, new_lines)
        filtered2 == update_filter(logs2, text) IN
    [log_lines |-> logs2,
     stats |-> update_stats(logs2),
     filtered_logs |-> filtered2,
     scroll |-> IF follow THEN Len(filtered2) ELSE sc]

\* the lines of a read that update_logs hands to add_log_line:
\* for i in self.log_lines.len()..lines.len()
new_suffix(lines, logs) == SubSeq(lines, Len(logs) + 1, Len(lines))

\* variant: the first n lines instead of the last n
first_n(lines, n) == SubSeq(lines, 1, IF Len(lines) > n THEN n ELSE Len(lines))

\* the lines of the initial read that initialize_logs hands to add_log_line
last_n(lines, n) ==
    LET start_idx == IF Len(lines) > n THEN Len(lines) - n ELSE 0 IN
    SubSeq(lines, start_idx + 1, Len(lines))

\* ------------------------------------------------------------------------
\* Sample text
\* ------------------------------------------------------------------------
LineErrorTs == <<"2","0","2","4","-","0","1","-","0","1"," ","1","0",":","0","0",":","0","0"," ","E","R","R","O","R"," ","b","o","o","m">>
LineInfo == <<"I","n","f","o"," ","o","k">>
LineShortTs == <<"2","0","2","4","-","0","1","-","0","1"," ","1","0",":","0","0">>

\* the lines the log file is made of
LineSet == {LineErrorTs, LineInfo, LineShortTs}

\* the characters the user types into the filter
FilterChars == {"e", "K"}

\* ------------------------------------------------------------------------
\* State
\* ------------------------------------------------------------------------
VARIABLES
    file,            \* the decodable lines of the log file, in order
    log_lines,       \* App.log_lines
    filtered_logs,   \* App.filtered_logs (0-based positions)
    scroll,          \* App.scroll
    selected_tab,    \* App.selected_tab
    follow_mode,     \* App.follow_mode
    view_mode,       \* App.view_mode
    stats,           \* App.stats
    filter_text,     \* App.filter_text
    filter_editing,  \* App.filter_editing
    elapsed,         \* App.last_update.elapsed() in ms, saturated at 500
    pc,              \* position of main: "init", "poll", "input"
    status,          \* "running", "quit", "io_error", "panicked"
    lastOp,          \* history: the operation that produced this state
    passed,          \* history: the lines add_log_line has stored, in order
    known_len,       \* history: line count of the file at the previous read
    filter_at_enter  \* history: filter_text when the open filter edit was entered

app_vars == <<log_lines, filtered_logs, scroll, selected_tab, follow_mode,
              view_mode, stats, filter_text, filter_editing>>
hist_vars == <<passed, known_len, filter_at_enter>>
vars == <<file, app_vars, elapsed, pc, status, lastOp, hist_vars>>

Files == UNION {[1..n -> LineSet] : n \in 0..MaxFile}

\* App::new, before initialize_logs
AppNew ==
    /\ log_lines = <<>>
    /\ filtered_logs = <<>>
    /\ scroll = 0
    /\ selected_tab = 0
    /\ follow_mode = TRUE
    /\ view_mode = "LogView"
    /\ stats = EmptyStats
    /\ filter_text = <<>>
    /\ filter_editing = FALSE
    /\ elapsed = 0

HistNew ==
    /\ passed = <<>>
    /\ known_len = 0
    /\ filter_at_enter = <<>>

Init ==
    /\ file \in Files
    /\ AppNew
    /\ HistNew
    /\ pc = "init"
    /\ status = "running"
    /\ lastOp = "new"

\* ------------------------------------------------------------------------
\* The log file (environment)
\* ------------------------------------------------------------------------
\* a writer appends one line to the file.  The program sees the file only
\* when update_logs reads it, so a write is placed right before a read that
\* is due (any number of writes may precede one read)
FileAppend ==
    /\ status = "running" /\ pc = "poll"
    /\ elapsed >= UpdateIntervalMs
    /\ Len(file) < MaxFile
    /\ \E l \in LineSet : file' = Append(file, l)
    /\ UNCHANGED <<app_vars, elapsed, pc, status, lastOp, hist_vars>>

\* ------------------------------------------------------------------------
\* main: app.initialize_logs(100)?
\* ------------------------------------------------------------------------
\* File::open fails: initialize_logs returns Err, main returns it
InitializeOpenFails ==
    /\ status = "running" /\ pc = "init"
    /\ status' = "io_error"
    /\ lastOp' = "init_ioerr"
    /\ UNCHANGED <<file, app_vars, elapsed, pc, hist_vars>>

\* add_log_line panics on one of the lines: main unwinds and the App is
\* dropped; the variables keep the values they had when the call began
InitializePanics ==
    /\ status = "running" /\ pc = "init"
    /\ any_panics(last_n(file, num_lines))
    /\ status' = "panicked"
    /\ lastOp' = "init_panic"
    /\ UNCHANGED <<file, app_vars, elapsed, pc, hist_vars>>

InitializeOk ==
    /\ status = "running" /\ pc = "init"
    /\ ~any_panics(last_n(file, num_lines))
    /\ LET batch == last_n(file, num_lines)
           logs2 == add_all(log_lines, batch) IN
       /\ log_lines' = logs2
       /\ filtered_logs' = update_filter(logs2, filter_text)
       /\ stats' = update_stats(logs2)
       /\ passed' = passed \o batch
    /\ known_len' = Len(file)
    /\ pc' = "poll"
    /\ lastOp' = "init"
    /\ UNCHANGED <<file, scroll, selected_tab, follow_mode, view_mode,
                   filter_text, filter_editing, elapsed, status,
                   filter_at_enter>>

\* ------------------------------------------------------------------------
\* main loop, poll step: if view_mode != HelpView { app.update_logs()? }
\* ------------------------------------------------------------------------
PollSkippedInHelp ==
    /\ status = "running" /\ pc = "poll"
    /\ view_mode = "HelpView"
    /\ pc' = "input"
    /\ lastOp' = "poll_skipped"
    /\ UNCHANGED <<file, app_vars, elapsed, status, hist_vars>>

\* update_logs returns Ok(()) at once: less than 500 ms since last_update
PollThrottled ==
    /\ status = "running" /\ pc = "poll"
    /\ view_mode # "HelpView"
    /\ elapsed < UpdateIntervalMs
    /\ pc' = "input"
    /\ lastOp' = "poll_throttled"
    /\ UNCHANGED <<file, app_vars, elapsed, status, hist_vars>>

\* variant: the store is emptied before the file is opened
PollOpenFails_store_cleared ==
    /\ status = "running" /\ pc = "poll"
    /\ view_mode # "HelpView"
    /\ elapsed >= UpdateIntervalMs
    /\ log_lines' = <<>>
    /\ status' = "io_error"
    /\ lastOp' = "poll_ioerr"
    /\ UNCHANGED <<file, filtered_logs, scroll, selected_tab, follow_mode,
                   view_mode, stats, filter_text, filter_editing, elapsed, pc,
                   hist_vars>>

\* File::open fails: update_logs returns Err, `?` makes main return it
PollOpenFails ==
    /\ status = "running" /\ pc = "poll"
    /\ view_mode # "HelpView"
    /\ elapsed >= UpdateIntervalMs
    /\ status' = "io_error"
    /\ lastOp' = "poll_ioerr"
    /\ UNCHANGED <<file, app_vars, elapsed, pc, hist_vars>>

\* the file has more lines than the store and one of them panics
PollPanics ==
    /\ status = "running" /\ pc = "poll"
    /\ view_mode # "HelpView"
    /\ elapsed >= UpdateIntervalMs
    /\ Len(file) > Len(log_lines)
    /\ any_panics(new_suffix(file, log_lines))
    /\ status' = "panicked"
    /\ lastOp' = "poll_panic"
    /\ UNCHANGED <<file, app_vars, elapsed, pc, hist_vars>>

\* the file has more lines than the store: they are ingested
PollIngest ==
    /\ status = "running" /\ pc = "poll"
    /\ view_mode # "HelpView"
    /\ elapsed >= UpdateIntervalMs
    /\ Len(file) > Len(log_lines)
    /\ ~any_panics(new_suffix(file, log_lines))
    /\ Len(passed) + Len(new_suffix(file, log_lines)) <= MaxIngest
    /\ LET batch == new_suffix(file, log_lines)
           r == ingest(log_lines, filtered_logs, filter_text, follow_mode,
                       scroll, batch) IN
       /\ log_lines' = r.log_lines
       /\ stats' = r.stats
       /\ filtered_logs' = r.filtered_logs
       /\ scroll' = r.scroll
       /\ passed' = passed \o batch
    /\ known_len' = Len(file)
    /\ elapsed' = 0
    /\ pc' = "input"
    /\ lastOp' = "poll_ingest"
    /\ UNCHANGED <<file, selected_tab, follow_mode, view_mode, filter_text,
                   filter_editing, status, filter_at_enter>>

\* variant: a read that finds nothing new does not reset last_update
PollNoNew_keeps_last_update ==
    /\ status = "running" /\ pc = "poll"
    /\ view_mode # "HelpView"
    /\ elapsed >= UpdateIntervalMs
    /\ Len(file) <= Len(log_lines)
    /\ known_len' = Len(file)
    /\ pc' = "input"
    /\ lastOp' = "poll_nonew"
    /\ UNCHANGED <<file, app_vars, elapsed, status, passed, filter_at_enter>>

\* the file has no more lines than the store: only last_update is reset
PollNoNew ==
    /\ status = "running" /\ pc = "poll"
    /\ view_mode # "HelpView"
    /\ elapsed >= UpdateIntervalMs
    /\ Len(file) <= Len(log_lines)
    /\ known_len' = Len(file)
    /\ elapsed' = 0
    /\ pc' = "input"
    /\ lastOp' = "poll_nonew"
    /\ UNCHANGED <<file, app_vars, status, passed, filter_at_enter>>

\* ------------------------------------------------------------------------
\* App methods used by the key handlers
\* ------------------------------------------------------------------------
scroll_up(sc) == IF sc > 0 THEN sc - 1 ELSE sc
scroll_down(sc, filtered) == IF sc < Len(filtered) THEN sc + 1 ELSE sc
page_up(sc) == IF sc > PageSize THEN sc - PageSize ELSE 0
\* variant: page_down without the clamp to the index length
page_down_unclamped(sc, filtered) == sc + PageSize

page_down(sc, filtered) ==
    IF sc + PageSize < Len(filtered) THEN sc + PageSize ELSE Len(filtered)

\* the match on selected_tab in next_tab / prev_tab
view_of_tab(tab, view) ==
    CASE tab = 0 -> "LogView"
      [] tab = 1 -> "StatsView"
      [] tab = 2 -> "HelpView"
      [] OTHER -> view

next_tab_index(tab) == (tab + 1) % TabCount
prev_tab_index(tab) == IF tab > 0 THEN tab - 1 ELSE 2

\* String::pop
pop(s) == IF s = <<>> THEN s ELSE SubSeq(s, 1, Len(s) - 1)

\* ------------------------------------------------------------------------
\* main loop, input step
\* ------------------------------------------------------------------------
AtInput == status = "running" /\ pc = "input"
OutsideFilter == view_mode # "FilterView"

\* what every handled key does to the loop position and the history
KeyDone(name) ==
    /\ pc' = "poll"
    /\ lastOp' = name

\* event::poll times out after 100 ms without an event
NoKey ==
    /\ AtInput
    /\ elapsed' = IF elapsed + PollTimeoutMs < UpdateIntervalMs
                  THEN elapsed + PollTimeoutMs ELSE UpdateIntervalMs
    /\ pc' = "poll"
    /\ lastOp' = "no_key"
    /\ UNCHANGED <<file, app_vars, status, hist_vars>>

\* a key no arm matches (`_ => {}`), or a display toggle (t, n)
KeyOther ==
    /\ AtInput
    /\ KeyDone("key_other")
    /\ UNCHANGED <<file, app_vars, elapsed, status, passed, known_len,
                   filter_at_enter>>

\* --- view_mode == FilterView ---
KeyFilterEnter ==
    /\ AtInput /\ view_mode = "FilterView"
    /\ view_mode' = "LogView"
    /\ filter_at_enter' = <<>>
    /\ filter_editing' = FALSE
    /\ filtered_logs' = update_filter(log_lines, filter_text)
    /\ KeyDone("confirm_filter")
    /\ UNCHANGED <<file, log_lines, scroll, selected_tab, follow_mode, stats,
                   filter_text, elapsed, status, passed, known_len>>

\* variant: Esc returns to the view of the selected tab
KeyFilterEsc_to_tab_view ==
    /\ AtInput /\ view_mode = "FilterView"
    /\ view_mode' = view_of_tab(selected_tab, view_mode)
    /\ filter_at_enter' = <<>>
    /\ filter_editing' = FALSE
    /\ KeyDone("cancel_filter")
    /\ UNCHANGED <<file, log_lines, filtered_logs, scroll, selected_tab,
                   follow_mode, stats, filter_text, elapsed, status, passed,
                   known_len>>

KeyFilterEsc ==
    /\ AtInput /\ view_mode = "FilterView"
    /\ view_mode' = "LogView"
    /\ filter_at_enter' = <<>>
    /\ filter_editing' = FALSE
    /\ KeyDone("cancel_filter")
    /\ UNCHANGED <<file, log_lines, filtered_logs, scroll, selected_tab,
                   follow_mode, stats, filter_text, elapsed, status, passed,
                   known_len>>

\* the entries the filter index lists
listed_entries(logs, filtered) == [k \in 1..Len(filtered) |-> logs[filtered[k] + 1]]

\* variant: typing a filter character also recomputes the statistics, over
\* the listed entries
KeyFilterChar_stats_of_listed ==
    /\ AtInput /\ view_mode = "FilterView"
    /\ Len(filter_text) < MaxFilter
    /\ \E c \in FilterChars :
          /\ filter_text' = Append(filter_text, c)
          /\ filtered_logs' = update_filter(log_lines, Append(filter_text, c))
          /\ stats' = update_stats(listed_entries(log_lines,
                           update_filter(log_lines, Append(filter_text, c))))
    /\ KeyDone("add_filter_char")
    /\ UNCHANGED <<file, log_lines, scroll, selected_tab, follow_mode,
                   view_mode, filter_editing, elapsed, status, passed,
                   known_len, filter_at_enter>>

\* add_filter_char
KeyFilterChar ==
    /\ AtInput /\ view_mode = "FilterView"
    /\ Len(filter_text) < MaxFilter
    /\ \E c \in FilterChars :
          /\ filter_text' = Append(filter_text, c)
          /\ filtered_logs' = update_filter(log_lines, Append(filter_text, c))
    /\ KeyDone("add_filter_char")
    /\ UNCHANGED <<file, log_lines, scroll, selected_tab, follow_mode,
                   view_mode, stats, filter_editing, elapsed, status, passed,
                   known_len, filter_at_enter>>

\* remove_filter_char
KeyFilterBackspace ==
    /\ AtInput /\ view_mode = "FilterView"
    /\ filter_text' = pop(filter_text)
    /\ filtered_logs' = update_filter(log_lines, pop(filter_text))
    /\ KeyDone("remove_filter_char")
    /\ UNCHANGED <<file, log_lines, scroll, selected_tab, follow_mode,
                   view_mode, stats, filter_editing, elapsed, status, passed,
                   known_len, filter_at_enter>>

\* --- any other view_mode ---
KeyQuit ==
    /\ AtInput /\ OutsideFilter
    /\ status' = "quit"
    /\ lastOp' = "quit"
    /\ UNCHANGED <<file, app_vars, elapsed, pc, hist_vars>>

\* variant: turning follow mode on snaps scroll to the store length
KeyToggleFollow_snap_to_store ==
    /\ AtInput /\ OutsideFilter
    /\ follow_mode' = ~follow_mode
    /\ scroll' = IF ~follow_mode THEN Len(log_lines) ELSE scroll
    /\ KeyDone("toggle_follow")
    /\ UNCHANGED <<file, log_lines, filtered_logs, selected_tab, view_mode,
                   stats, filter_text, filter_editing, elapsed, status,
                   passed, known_len, filter_at_enter>>

\* toggle_follow_mode
KeyToggleFollow ==
    /\ AtInput /\ OutsideFilter
    /\ follow_mode' = ~follow_mode
    /\ scroll' = IF ~follow_mode THEN Len(filtered_logs) ELSE scroll
    /\ KeyDone("toggle_follow")
    /\ UNCHANGED <<file, log_lines, filtered_logs, selected_tab, view_mode,
                   stats, filter_text, filter_editing, elapsed, status,
                   passed, known_len, filter_at_enter>>

\* '/': enter filter edit
KeyEnterFilter ==
    /\ AtInput /\ OutsideFilter
    /\ view_mode' = "FilterView"
    /\ filter_editing' = TRUE
    /\ filter_at_enter' = filter_text
    /\ KeyDone("enter_filter")
    /\ UNCHANGED <<file, log_lines, filtered_logs, scroll, selected_tab,
                   follow_mode, stats, filter_text, elapsed, status, passed,
                   known_len>>

\* Ctrl-c: clear_filter
KeyClearFilter ==
    /\ AtInput /\ OutsideFilter
    /\ filter_text' = <<>>
    /\ filtered_logs' = update_filter(log_lines, <<>>)
    /\ KeyDone("clear_filter")
    /\ UNCHANGED <<file, log_lines, scroll, selected_tab, follow_mode,
                   view_mode, stats, filter_editing, elapsed, status, passed,
                   known_len, filter_at_enter>>

\* Tab: next_tab
KeyTab ==
    /\ AtInput /\ OutsideFilter
    /\ selected_tab' = next_tab_index(selected_tab)
    /\ view_mode' = view_of_tab(next_tab_index(selected_tab), view_mode)
    /\ KeyDone("next_tab")
    /\ UNCHANGED <<file, log_lines, filtered_logs, scroll, follow_mode,
                   stats, filter_text, filter_editing, elapsed, status,
                   passed, known_len, filter_at_enter>>

\* BackTab: prev_tab
KeyBackTab ==
    /\ AtInput /\ OutsideFilter
    /\ selected_tab' = prev_tab_index(selected_tab)
    /\ view_mode' = view_of_tab(prev_tab_index(selected_tab), view_mode)
    /\ KeyDone("prev_tab")
    /\ UNCHANGED <<file, log_lines, filtered_logs, scroll, follow_mode,
                   stats, filter_text, filter_editing, elapsed, status,
                   passed, known_len, filter_at_enter>>

\* variant: Up scrolls without leaving follow mode
KeyUp_keep_follow ==
    /\ AtInput /\ OutsideFilter
    /\ scroll' = scroll_up(scroll)
    /\ KeyDone("scroll_up")
    /\ UNCHANGED <<file, log_lines, filtered_logs, selected_tab, follow_mode,
                   view_mode, stats, filter_text, filter_editing, elapsed,
                   status, passed, known_len, filter_at_enter>>

\* Up: follow_mode = false; scroll_up
KeyUp ==
    /\ AtInput /\ OutsideFilter
    /\ follow_mode' = FALSE
    /\ scroll' = scroll_up(scroll)
    /\ KeyDone("scroll_up")
    /\ UNCHANGED <<file, log_lines, filtered_logs, selected_tab, view_mode,
                   stats, filter_text, filter_editing, elapsed, status,
                   passed, known_len, filter_at_enter>>

\* Down: scroll_down
KeyDown ==
    /\ AtInput /\ OutsideFilter
    /\ scroll' = scroll_down(scroll, filtered_logs)
    /\ KeyDone("scroll_down")
    /\ UNCHANGED <<file, log_lines, filtered_logs, selected_tab, follow_mode,
                   view_mode, stats, filter_text, filter_editing, elapsed,
                   status, passed, known_len, filter_at_enter>>

\* PageUp: follow_mode = false; page_up
KeyPageUp ==
    /\ AtInput /\ OutsideFilter
    /\ follow_mode' = FALSE
    /\ scroll' = page_up(scroll)
    /\ KeyDone("page_up")
    /\ UNCHANGED <<file, log_lines, filtered_logs, selected_tab, view_mode,
                   stats, filter_text, filter_editing, elapsed, status,
                   passed, known_len, filter_at_enter>>

\* PageDown: page_down
KeyPageDown ==
    /\ AtInput /\ OutsideFilter
    /\ scroll' = page_down(scroll, filtered_logs)
    /\ KeyDone("page_down")
    /\ UNCHANGED <<file, log_lines, filtered_logs, selected_tab, follow_mode,
                   view_mode, stats, filter_text, filter_editing, elapsed,
                   status, passed, known_len, filter_at_enter>>

\* ------------------------------------------------------------------------
\* Specification
\* ------------------------------------------------------------------------
Next ==
    \/ FileAppend
    \/ InitializeOpenFails
    \/ InitializePanics
    \/ InitializeOk
    \/ PollSkippedInHelp
    \/ PollThrottled
    \/ PollOpenFails
    \/ PollPanics
    \/ PollIngest
    \/ PollNoNew
    \/ NoKey
    \/ KeyOther
    \/ KeyFilterEnter
    \/ KeyFilterEsc
    \/ KeyFilterChar
    \/ KeyFilterBackspace
    \/ KeyQuit
    \/ KeyToggleFollow
    \/ KeyEnterFilter
    \/ KeyClearFilter
    \/ KeyTab
    \/ KeyBackTab
    \/ KeyUp
    \/ KeyDown
    \/ KeyPageUp
    \/ KeyPageDown

Spec == Init /\ [][Next]_vars

TypeOK ==
    /\ scroll \in Nat
    /\ selected_tab \in 0..2
    /\ view_mode \in {"LogView", "StatsView", "HelpView", "FilterView"}
    /\ status \in {"running", "quit", "io_error", "panicked"}
    /\ pc \in {"init", "poll", "input"}

\* ------------------------------------------------------------------------
\* add_log_line applied to single lines
\* ------------------------------------------------------------------------
\* s with the character at 0-based offset n replaced by c (when it has one)
with_char(s, n, c) ==
    [k \in 1..Len(s) |-> IF k = n + 1 THEN c ELSE s[k]]

\* words that carry the keywords of from_line in mixed case; the second is
\* the banner in lower case, which the case-sensitive banner test must miss
KeywordTokens == <<
    <<"A","S","L"," ","S","e","n","d","e","r"," ","S","t","a","t","i","s","t","i","c","s">>,
    <<"a","s","l"," ","s","e","n","d","e","r"," ","s","t","a","t","i","s","t","i","c","s">>,
    <<"E","r","r","o","r">>,
    <<"F","A","I","L">>,
    <<"e","x","c","e","p","t","i","o","n">>,
    <<"W","a","r","n">>,
    <<"D","E","B","U","G">>,
    <<"n","o","t","i","c","e">>,
    <<"I","n","f","o">> >>

RECURSIVE join_tokens(_, _)
\* the chosen tokens in order k, k+1, ..., each followed by a space
join_tokens(k, chosen) ==
    IF k > Len(KeywordTokens) THEN <<>>
    ELSE (IF k \in chosen THEN KeywordTokens[k] \o <<" ">> ELSE <<>>)
            \o join_tokens(k + 1, chosen)

RECURSIVE join_tokens_rev(_, _)
\* the chosen tokens in the opposite order
join_tokens_rev(k, chosen) ==
    IF k < 1 THEN <<>>
    ELSE (IF k \in chosen THEN KeywordTokens[k] \o <<" ">> ELSE <<>>)
            \o join_tokens_rev(k - 1, chosen)

\* one line per combination of keywords, in both orders
KeywordLines ==
    UNION {{join_tokens(1, chosen), join_tokens_rev(Len(KeywordTokens), chosen)} :
              chosen \in SUBSET (1..Len(KeywordTokens))}

\* prefixes of a stamped line, with and without the space at offset 10 and
\* the colon at offset 13
SampleLines ==
    LET prefixes == {SubSeq(LineErrorTs, 1, n) : n \in 0..MaxStampLen} IN
    UNION {{p, with_char(p, 10, "T"), with_char(p, 13, "."),
            with_char(with_char(p, 10, "T"), 13, ".")} : p \in prefixes}
      \cup LineSet \cup KeywordLines

LineInit ==
    /\ file \in {<<l>> : l \in SampleLines}
    /\ AppNew
    /\ HistNew
    /\ pc = "line"
    /\ status = "running"
    /\ lastOp = "new"

\* add_log_line panics while slicing the timestamp
AddLinePanics ==
    /\ status = "running" /\ pc = "line"
    /\ add_log_line_panics(file[1])
    /\ status' = "panicked"
    /\ lastOp' = "add_log_line_panic"
    /\ UNCHANGED <<file, app_vars, elapsed, pc, hist_vars>>

AddLineOk ==
    /\ status = "running" /\ pc = "line"
    /\ ~add_log_line_panics(file[1])
    /\ log_lines' = add_log_line(log_lines, file[1])
    /\ passed' = Append(passed, file[1])
    /\ pc' = "line_done"
    /\ lastOp' = "add_log_line"
    /\ UNCHANGED <<file, filtered_logs, scroll, selected_tab, follow_mode,
                   view_mode, stats, filter_text, filter_editing, elapsed,
                   status, known_len, filter_at_enter>>

LineNext == AddLinePanics \/ AddLineOk

SpecLine == LineInit /\ [][LineNext]_vars

\* ------------------------------------------------------------------------
\* The log file may also shrink
\* ------------------------------------------------------------------------
\* the file is truncated to a shorter prefix (placed, like a write, right
\* before a read that is due)
FileTruncate ==
    /\ status = "running" /\ pc = "poll"
    /\ elapsed >= UpdateIntervalMs
    /\ \E n \in 0..(Len(file) - 1) : file' = SubSeq(file, 1, n)
    /\ UNCHANGED <<app_vars, elapsed, pc, status, lastOp, hist_vars>>

\* the program with a file that grows and shrinks, driven by the keys that
\* do not edit the filter
TruncNext ==
    \/ FileAppend
    \/ FileTruncate
    \/ InitializeOpenFails
    \/ InitializePanics
    \/ InitializeOk
    \/ PollSkippedInHelp
    \/ PollThrottled
    \/ PollOpenFails
    \/ PollPanics
    \/ PollIngest
    \/ PollNoNew
    \/ NoKey
    \/ KeyTab
    \/ KeyToggleFollow
    \/ KeyQuit

SpecTrunc == Init /\ [][TruncNext]_vars

\* ------------------------------------------------------------------------
\* The program on files whose lines carry different hours
\* ------------------------------------------------------------------------
LineWarnTs11 == <<"2","0","2","4","-","0","1","-","0","1"," ","1","1",":","3","0",":","0","0"," ","w","a","r","n">>

HourFiles == UNION {[1..n -> LineSet \cup {LineWarnTs11}] : n \in 0..MaxFile}

HoursInit ==
    /\ file \in HourFiles
    /\ AppNew
    /\ HistNew
    /\ pc = "init"
    /\ status = "running"
    /\ lastOp = "new"

\* main without key presses
HoursNext ==
    \/ FileAppend
    \/ InitializeOpenFails
    \/ InitializePanics
    \/ InitializeOk
    \/ PollThrottled
    \/ PollOpenFails
    \/ PollPanics
    \/ PollIngest
    \/ PollNoNew
    \/ NoKey

SpecHours == HoursInit /\ [][HoursNext]_vars

\* ------------------------------------------------------------------------
\* Scrolling over an index longer than a page
\* ------------------------------------------------------------------------
\* a store of n entries, as left by ingesting n lines below the capacity
\* (App::new sets max_lines to 1000)
store_of(n) == [k \in 1..n |-> LogLine(IF k % 2 = 1 THEN LineInfo ELSE LineErrorTs)]

\* the loop waits for a key; the store holds up to MaxView entries, no
\* filter is set and scroll is anywhere in the index
ScrollInit ==
    /\ \E n \in 0..MaxView :
          /\ log_lines = store_of(n)
          /\ filtered_logs = update_filter(store_of(n), <<>>)
          /\ stats = update_stats(store_of(n))
          /\ scroll \in 0..n
    /\ file = <<>>
    /\ selected_tab = 0
    /\ follow_mode \in BOOLEAN
    /\ view_mode = "LogView"
    /\ filter_text = <<>>
    /\ filter_editing = FALSE
    /\ elapsed = 0
    /\ HistNew
    /\ pc = "input"
    /\ status = "running"
    /\ lastOp = "poll_throttled"

\* the scroll keys, each followed by a poll that is not yet due
ScrollNext ==
    \/ KeyUp
    \/ KeyDown
    \/ KeyPageUp
    \/ KeyPageDown
    \/ PollThrottled

SpecScroll == ScrollInit /\ [][ScrollNext]_vars

\* ------------------------------------------------------------------------
\* initialize_logs for every num_lines up to the capacity
\* ------------------------------------------------------------------------
\* initialize_logs(n) panics in add_log_line
InitializeLogsPanics(n) ==
    /\ status = "running" /\ pc = "init"
    /\ any_panics(last_n(file, n))
    /\ status' = "panicked"
    /\ lastOp' = "init_panic"
    /\ UNCHANGED <<file, app_vars, elapsed, pc, hist_vars>>

\* initialize_logs(n) returns Ok
InitializeLogsOk(n) ==
    /\ status = "running" /\ pc = "init"
    /\ ~any_panics(last_n(file, n))
    /\ LET batch == last_n(file, n)
           logs2 == add_all(log_lines, batch) IN
       /\ log_lines' = logs2
       /\ filtered_logs' = update_filter(logs2, filter_text)
       /\ stats' = update_stats(logs2)
       /\ passed' = passed \o batch
    /\ known_len' = Len(file)
    /\ pc' = "poll"
    /\ lastOp' = "init"
    /\ UNCHANGED <<file, scroll, selected_tab, follow_mode, view_mode,
                   filter_text, filter_editing, elapsed, status,
                   filter_at_enter>>

StartNext ==
    \/ InitializeOpenFails
    \/ \E n \in 0..max_lines : InitializeLogsPanics(n)
    \/ \E n \in 0..max_lines : InitializeLogsOk(n)

SpecStart == Init /\ [][StartNext]_vars

\* ------------------------------------------------------------------------
\* Drawing the log list while the filter is edited
\* ------------------------------------------------------------------------
\* draw_log_view: the visible range
start_idx(sc) == IF sc > PageSize THEN sc - PageSize ELSE 0
end_idx(sc, logs_height, visible_len) ==
    IF start_idx(sc) + logs_height <= visible_len
    THEN start_idx(sc) + logs_height ELSE visible_len

\* the usize subtraction end_idx - start_idx has a negative result
take_underflows(sc, logs_height, visible_len) ==
    end_idx(sc, logs_height, visible_len) < start_idx(sc)

\* the views that call draw_log_view
DrawsLogList == view_mode \in {"LogView", "FilterView"}

\* a store of n lines without the letter e
plain_store(n) == [k \in 1..n |-> LogLine(LineInfo)]

\* the loop waits for a key; the store holds up to MaxView entries, no
\* filter is set and scroll is anywhere in the index
DrawInit ==
    /\ \E n \in 0..MaxView :
          /\ log_lines = plain_store(n)
          /\ filtered_logs = update_filter(plain_store(n), <<>>)
          /\ stats = update_stats(plain_store(n))
          /\ scroll \in 0..n
    /\ file = <<>>
    /\ selected_tab = 0
    /\ follow_mode \in BOOLEAN
    /\ view_mode = "LogView"
    /\ filter_text = <<>>
    /\ filter_editing = FALSE
    /\ elapsed = 0
    /\ HistNew
    /\ pc = "input"
    /\ status = "running"
    /\ lastOp = "poll_throttled"

\* terminal.draw at the top of the loop: with overflow checks (debug build)
\* the subtraction panics; without them it wraps and the loop goes on, which
\* the poll actions model
DrawPanics ==
    /\ status = "running" /\ pc = "poll"
    /\ DrawsLogList
    /\ \E logs_height \in 0..MaxRows :
          take_underflows(scroll, logs_height, Len(filtered_logs))
    /\ status' = "panicked"
    /\ lastOp' = "draw_panic"
    /\ UNCHANGED <<file, app_vars, elapsed, pc, hist_vars>>

\* the filter keys, each followed by a draw and a poll that is not yet due
DrawNext ==
    \/ KeyEnterFilter
    \/ KeyFilterChar
    \/ KeyFilterBackspace
    \/ KeyFilterEnter
    \/ KeyFilterEsc
    \/ KeyClearFilter
    \/ DrawPanics
    \/ PollThrottled

SpecDraw == DrawInit /\ [][DrawNext]_vars

\* ------------------------------------------------------------------------
\* The main loop running forever on a readable, growing file
\* ------------------------------------------------------------------------
\* PollIngest without the record of the stored lines, so that the loop can
\* ingest any number of times
PollIngestUnrecorded ==
    /\ status = "running" /\ pc = "poll"
    /\ view_mode # "HelpView"
    /\ elapsed >= UpdateIntervalMs
    /\ Len(file) > Len(log_lines)
    /\ ~any_panics(new_suffix(file, log_lines))
    /\ LET batch == new_suffix(file, log_lines)
           r == ingest(log_lines, filtered_logs, filter_text, follow_mode,
                       scroll, batch) IN
       /\ log_lines' = r.log_lines
       /\ stats' = r.stats
       /\ filtered_logs' = r.filtered_logs
       /\ scroll' = r.scroll
    /\ known_len' = Len(file)
    /\ elapsed' = 0
    /\ pc' = "input"
    /\ lastOp' = "poll_ingest"
    /\ UNCHANGED <<file, selected_tab, follow_mode, view_mode, filter_text,
                   filter_editing, status, passed, filter_at_enter>>

\* app.initialize_logs(100)
LiveStart == InitializeOk \/ InitializePanics

\* the poll step of one iteration
LivePoll ==
    \/ PollSkippedInHelp
    \/ PollThrottled
    \/ PollPanics
    \/ PollIngestUnrecorded
    \/ PollNoNew

\* the file opens every time, and the user switches tabs but never quits
LiveNext ==
    \/ FileAppend
    \/ LiveStart
    \/ LivePoll
    \/ NoKey
    \/ KeyTab

\* main gets past initialize_logs, and the loop gets past its poll step
\* (unless a panic ends it)
StartReturns == status = "running" /\ pc = "init" /\ pc' = "poll"
PollReturns == status = "running" /\ pc = "poll" /\ pc' = "input"

\* the loop keeps iterating, and time passes: event::poll times out again
\* and again
SpecLive ==
    /\ Init
    /\ [][LiveNext]_vars
    /\ WF_pc(StartReturns)
    /\ WF_pc(PollReturns)
    /\ SF_vars(NoKey)

\* ------------------------------------------------------------------------
\* Properties
\* ------------------------------------------------------------------------
contents(logs) == [k \in 1..Len(logs) |-> logs[k].content]

\* the last n elements of s (all of s when it is shorter)
last_of(s, n) == IF Len(s) > n THEN SubSeq(s, Len(s) - n + 1, Len(s)) ELSE s

\* C1: the store never holds more than max_lines entries, and it is, in
\* order, the most recent min(max_lines, k) of the k lines stored so far
C1_StoreIsMostRecent ==
    /\ Len(log_lines) <= max_lines
    /\ contents(log_lines) = last_of(passed, max_lines)

\* C1 witness: more lines than the capacity were stored, the oldest were
\* evicted and the remaining ones differ (so their order shows)
C1_Witness ==
    /\ Len(passed) > max_lines
    /\ Len(log_lines) = max_lines
    /\ log_lines[1].content # log_lines[max_lines].content

\* a poll step of the main loop that read the file
PollReadStep ==
    /\ pc = "poll" /\ pc' = "input"
    /\ lastOp' \in {"poll_ingest", "poll_nonew"}

\* C2: the file only grows here; each poll that reads the file stores exactly
\* the lines beyond the line count known from the previous read
C2_PollStoresOnlyNewLines ==
    [][PollReadStep =>
          passed' = passed \o SubSeq(file, known_len + 1, Len(file))]_vars

\* C3: scroll stays within 0..len(filtered_logs)
C3_ScrollInRange == 0 <= scroll /\ scroll <= Len(filtered_logs)

\* content contains text, ignoring case
matches(entry, text) == contains(to_lowercase(entry.content), to_lowercase(text))

is_strictly_ascending(s) == \A k \in 1..(Len(s) - 1) : s[k] < s[k + 1]

\* filtered is exactly the ascending list of the positions that match text
is_filter_index(filtered, logs, text) ==
    /\ is_strictly_ascending(filtered)
    /\ {filtered[k] : k \in 1..Len(filtered)}
          = {q \in 0..(Len(logs) - 1) : matches(logs[q + 1], text)}
    /\ text = <<>> => filtered = [k \in 1..Len(logs) |-> k - 1]

\* C4: filtered_logs is always the index of the current store under the
\* current filter text (case-insensitive containment, identity when empty)
C4_FilterIndexConsistent == is_filter_index(filtered_logs, log_lines, filter_text)

\* C4 witness: a typed upper-case filter character selects some but not all
\* entries of the store
C4_Witness ==
    /\ lastOp = "add_filter_char"
    /\ filter_text = <<"K">>
    /\ filtered_logs # <<>>
    /\ Len(filtered_logs) < Len(log_lines)

\* C5: after a poll that ingested lines in follow mode, scroll is the length
\* of the filter index recomputed from the store after the ingestion
C5_FollowSnapsToFreshIndex ==
    (pc = "input" /\ lastOp = "poll_ingest" /\ follow_mode) =>
        /\ scroll = Len(filtered_logs)
        /\ is_filter_index(filtered_logs, log_lines, filter_text)

\* C5 witness: such a poll with a filter set, after evictions, where the
\* index does not list the whole store
C5_Witness ==
    /\ pc = "input" /\ lastOp = "poll_ingest" /\ follow_mode
    /\ filter_text # <<>>
    /\ Len(passed) > max_lines
    /\ Len(filtered_logs) < Len(log_lines)
    /\ scroll = Len(filtered_logs)

\* C6: a poll whose File::open failed leaves the process running
C6_PollIoFailureNotFatal == lastOp = "poll_ioerr" => status = "running"

\* the timestamp the specification gives a line
claimed_timestamp(line) ==
    IF Len(line) >= 20 /\ nth(line, 10) = " " /\ nth(line, 13) = ":"
    THEN SubSeq(line, 1, 19) ELSE <<>>

\* C7: add_log_line succeeds on every line, and the stored timestamp is the
\* first 19 characters exactly for lines of 20 or more characters with a
\* space at offset 10 and a colon at offset 13, and empty otherwise
C7_AddLogLineTotal ==
    lastOp # "new" =>
        /\ status = "running"
        /\ Len(log_lines) = 1
        /\ log_lines[1].content = file[1]
        /\ log_lines[1].timestamp = claimed_timestamp(file[1])

\* the Esc key handled in the filter view
CancelStep ==
    /\ pc = "input" /\ view_mode = "FilterView"
    /\ pc' = "poll" /\ lastOp' = "cancel_filter"

\* C8: cancelling a filter edit restores the filter text the edit started
\* from, leaves the index as it was for that text, and shows the Log view
C8_CancelDiscardsEdits ==
    [][CancelStep =>
          /\ filter_text' = filter_at_enter
          /\ filtered_logs' = update_filter(log_lines, filter_at_enter)
          /\ view_mode' = "LogView"]_vars

next_view(view) ==
    CASE view = "LogView" -> "StatsView"
      [] view = "StatsView" -> "HelpView"
      [] view = "HelpView" -> "LogView"
      [] OTHER -> view

prev_view(view) ==
    CASE view = "LogView" -> "HelpView"
      [] view = "StatsView" -> "LogView"
      [] view = "HelpView" -> "StatsView"
      [] OTHER -> view

\* the Tab / BackTab key handled outside the filter view
TabStep(name) == pc = "input" /\ pc' = "poll" /\ lastOp' = name

\* C9: NextTab moves Log -> Stats -> Help -> Log and PrevTab the reverse,
\* whatever commands came before
C9_TabCycle ==
    [][/\ TabStep("next_tab") => view_mode' = next_view(view_mode)
       /\ TabStep("prev_tab") => view_mode' = prev_view(view_mode)]_vars

\* C10: the level counts add up to total_entries, which is the store length
C10_StatsAddUp ==
    /\ stats.error_count + stats.warning_count + stats.info_count
          + stats.debug_count + stats.unknown_count = stats.total_entries
    /\ stats.total_entries = Len(log_lines)

\* C10 witness: a batch evicted entries and the store holds two levels
C10_Witness ==
    /\ lastOp = "poll_ingest"
    /\ Len(passed) > max_lines
    /\ stats.error_count > 0
    /\ stats.info_count > 0

\* a poll step that read a file shorter than at the previous read
TruncatedReadStep ==
    /\ pc = "poll" /\ status = "running"
    /\ view_mode # "HelpView" /\ elapsed >= UpdateIntervalMs
    /\ Len(file) < known_len
    /\ lastOp' \in {"poll_ingest", "poll_nonew", "poll_panic"}
    /\ (pc' = "input" \/ status' # "running")

\* C11: a poll that finds the file shorter than at the previous read changes
\* nothing of the store, the index, the statistics, scroll and follow_mode,
\* and raises no error
C11_TruncationIsNoOp ==
    [][TruncatedReadStep =>
          /\ UNCHANGED <<log_lines, filtered_logs, stats, scroll, follow_mode>>
          /\ status' = "running"]_vars

\* C12: Up and PageUp always leave follow_mode false, Down and PageDown
\* never turn it on, and a step that turns it on is a ToggleFollow
C12_ManualScrollLeavesFollowOff ==
    [][/\ (lastOp' \in {"scroll_up", "page_up"} /\ pc = "input") => ~follow_mode'
       /\ (lastOp' \in {"scroll_down", "page_down"} /\ pc = "input")
             => (follow_mode' = follow_mode)
       /\ (pc # "init" /\ ~follow_mode /\ follow_mode')
             => (pc = "input" /\ lastOp' = "toggle_follow")]_vars

\* Up pressed at the top while following: scroll stays 0, follow is off
C12_Witness ==
    /\ lastOp = "scroll_up" /\ scroll = 0 /\ ~follow_mode
    /\ filtered_logs # <<>>

\* C13: in every state after initialize_logs, follow_mode implies that
\* scroll equals the length of filtered_logs
C13_FollowPinsToBottom ==
    (pc # "init" /\ follow_mode) => scroll = Len(filtered_logs)

\* C14: the filter view is entered only by the enter-filter key, tab keys
\* neither produce nor leave it, Enter and Esc in it lead to the log view,
\* and after Enter filtered_logs is the index of the committed filter_text
C14_FilterViewTransitions ==
    [][/\ (view_mode # "FilterView" /\ view_mode' = "FilterView")
             => (pc = "input" /\ lastOp' = "enter_filter")
       /\ (pc = "input" /\ lastOp' \in {"next_tab", "prev_tab"})
             => (view_mode # "FilterView" /\ view_mode' # "FilterView")
       /\ (pc = "input" /\ lastOp' \in {"confirm_filter", "cancel_filter"})
             => (view_mode = "FilterView" /\ view_mode' = "LogView")
       /\ (pc = "input" /\ lastOp' = "confirm_filter")
             => /\ filter_text' = filter_text
                /\ is_filter_index(filtered_logs', log_lines', filter_text')]_vars

\* a non-empty filter confirmed while another tab is selected
C14_Witness ==
    /\ lastOp = "confirm_filter" /\ view_mode = "LogView"
    /\ selected_tab # 0 /\ filter_text # <<>>
    /\ Len(filtered_logs) < Len(log_lines)

\* the keyword rules in priority order, and the level each one gives
RuleKeywords == <<{KwError, KwFail, KwException}, {KwWarn}, {KwDebug},
                  {KwNotice, KwInfo}>>
RuleLevels == <<"Error", "Warning", "Debug", "Info">>

rule_applies(line, r) ==
    \E kw \in RuleKeywords[r] : contains(to_lowercase(line), kw)

\* the level of the first rule that applies
first_rule_level(line) ==
    IF contains(line, KwAsl) THEN "Info"
    ELSE IF \E r \in 1..Len(RuleKeywords) : rule_applies(line, r)
    THEN RuleLevels[CHOOSE r \in 1..Len(RuleKeywords) :
                       /\ rule_applies(line, r)
                       /\ \A q \in 1..(r - 1) : ~rule_applies(line, q)]
    ELSE "Unknown"

\* C15: from_line gives every line exactly one level, the one of the first
\* rule that applies: banner, then error/fail/exception, warn, debug,
\* notice/info, else Unknown
C15_FromLinePriority ==
    lastOp = "add_log_line" =>
        /\ Len(log_lines) = 1
        /\ log_lines[1].level = first_rule_level(file[1])
        /\ log_lines[1].level = from_line(file[1])

\* a line with both info and fail, without the banner, is an Error
C15_Witness ==
    /\ lastOp = "add_log_line"
    /\ ~contains(file[1], KwAsl)
    /\ contains(to_lowercase(file[1]), KwInfo)
    /\ contains(to_lowercase(file[1]), KwFail)
    /\ ~contains(to_lowercase(file[1]), KwError)
    /\ log_lines[1].level = "Error"

RECURSIVE level_tally(_, _)
\* how many entries of logs have level lvl, counted one entry at a time
level_tally(logs, lvl) ==
    IF logs = <<>> THEN 0
    ELSE (IF Head(logs).level = lvl THEN 1 ELSE 0) + level_tally(Tail(logs), lvl)

counts_tally_store ==
    /\ stats.total_entries = Len(log_lines)
    /\ stats.error_count = level_tally(log_lines, "Error")
    /\ stats.warning_count = level_tally(log_lines, "Warning")
    /\ stats.info_count = level_tally(log_lines, "Info")
    /\ stats.debug_count = level_tally(log_lines, "Debug")
    /\ stats.unknown_count = level_tally(log_lines, "Unknown")

FilterCommandStep ==
    /\ pc = "input"
    /\ lastOp' \in {"add_filter_char", "remove_filter_char", "clear_filter",
                    "confirm_filter", "cancel_filter"}

\* C16: the level counts always tally the whole store, and every filter
\* command leaves stats and log_lines unchanged
C16_StatsIgnoreFilter ==
    /\ []counts_tally_store
    /\ [][FilterCommandStep => UNCHANGED <<stats, log_lines>>]_vars

\* a typed character hides an entry that the statistics still count
C16_Witness ==
    /\ lastOp = "add_filter_char"
    /\ Len(filtered_logs) < Len(log_lines)
    /\ stats.total_entries = Len(log_lines)
    /\ stats.total_entries > 0

\* entries with a timestamp, and the two characters after offset 11 of it
is_stamped(entry) == entry.timestamp # <<>>
hour_label(entry) == <<entry.timestamp[12], entry.timestamp[13]>>

stamped_at(logs, h) ==
    {k \in 1..Len(logs) : is_stamped(logs[k]) /\ hour_label(logs[k]) = h}

RECURSIVE bucket_sum(_, _)
bucket_sum(buckets, labels) ==
    IF labels = {} THEN 0
    ELSE LET h == CHOOSE x \in labels : TRUE IN
         buckets[h] + bucket_sum(buckets, labels \ {h})

\* C17: entries_by_hour holds, for exactly the hours of the stamped entries
\* now in the store, how many of them have that hour; the buckets sum to the
\* number of stamped entries, and every entry is counted in total_entries
C17_HourBucketsExact ==
    LET buckets == stats.entries_by_hour IN
    /\ \A k \in 1..Len(log_lines) :
          is_stamped(log_lines[k]) => hour_label(log_lines[k]) \in DOMAIN buckets
    /\ \A h \in DOMAIN buckets :
          /\ buckets[h] > 0
          /\ buckets[h] = Cardinality(stamped_at(log_lines, h))
    /\ bucket_sum(buckets, DOMAIN buckets)
          = Cardinality({k \in 1..Len(log_lines) : is_stamped(log_lines[k])})
    /\ stats.total_entries = Len(log_lines)

\* the only entry of hour 11 was evicted: its bucket is gone, another hour
\* and an entry without timestamp remain
C17_Witness ==
    /\ lastOp = "poll_ingest"
    /\ Len(passed) > Len(log_lines)
    /\ \E k \in 1..(Len(passed) - Len(log_lines)) : passed[k] = LineWarnTs11
    /\ DOMAIN stats.entries_by_hour = {<<"1", "0">>}
    /\ \E k \in 1..Len(log_lines) : ~is_stamped(log_lines[k])

\* C18: ToggleFollow flips follow_mode; turning it on sets scroll to the
\* length of filtered_logs, turning it off keeps scroll; the store, the
\* filter and the statistics stay as they are
C18_ToggleFollow ==
    [][(pc = "input" /\ lastOp' = "toggle_follow") =>
          /\ follow_mode' = ~follow_mode
          /\ follow_mode' => scroll' = Len(filtered_logs)
          /\ ~follow_mode' => scroll' = scroll
          /\ UNCHANGED <<log_lines, filtered_logs, filter_text, stats>>]_vars

\* follow mode turned on under a filter that hides an entry
C18_Witness ==
    /\ lastOp = "toggle_follow" /\ follow_mode
    /\ scroll = Len(filtered_logs)
    /\ 0 < Len(filtered_logs) /\ Len(filtered_logs) < Len(log_lines)

Max2(a, b) == IF a >= b THEN a ELSE b
Min2(a, b) == IF a <= b THEN a ELSE b

\* C19: from a scroll s within 0..L, L the length of filtered_logs,
\* scroll_up gives max(s-1, 0), scroll_down min(s+1, L), page_up
\* max(s-10, 0) and page_down min(s+10, L); the store, the filter index and
\* the statistics are unchanged
C19_ScrollArithmetic ==
    [][(pc = "input" /\ scroll <= Len(filtered_logs)) =>
          /\ lastOp' = "scroll_up" => scroll' = Max2(scroll - 1, 0)
          /\ lastOp' = "scroll_down"
                => scroll' = Min2(scroll + 1, Len(filtered_logs))
          /\ lastOp' = "page_up" => scroll' = Max2(scroll - 10, 0)
          /\ lastOp' = "page_down"
                => scroll' = Min2(scroll + 10, Len(filtered_logs))
          /\ lastOp' \in {"scroll_up", "scroll_down", "page_up", "page_down"}
                => UNCHANGED <<log_lines, filtered_logs, stats>>]_vars

\* page_down moved a full page without reaching the end of the index
C19_Witness ==
    /\ lastOp = "page_down"
    /\ scroll = 11
    /\ Len(filtered_logs) = 12

\* the state initialize_logs(n) leaves over the file it read
initialized_from(n) ==
    /\ contents(log_lines) = last_of(file, Min2(n, Len(file)))
    /\ Len(log_lines) = Min2(n, Len(file))
    /\ \A k \in 1..Len(log_lines) :
          log_lines[k].level = first_rule_level(log_lines[k].content)
    /\ is_filter_index(filtered_logs, log_lines, filter_text)
    /\ counts_tally_store
    /\ scroll = 0 /\ follow_mode /\ view_mode = "LogView"
    /\ status = "running"

\* C20: a successful initialize_logs(n), n <= max_lines, leaves the last
\* min(n, m) of the m file lines in the store, in file order and classified,
\* filtered_logs and stats consistent with it, scroll 0, follow_mode on and
\* the log view active
C20_InitialLoad ==
    [][\A n \in 0..max_lines : InitializeLogsOk(n) => initialized_from(n)']_vars

\* the file is longer than the store, which holds its last two lines, and
\* these differ
C20_Witness ==
    /\ lastOp = "init" /\ pc = "poll"
    /\ Len(log_lines) = 2 /\ Len(file) > 2
    /\ log_lines[1].content = file[Len(file) - 1]
    /\ log_lines[2].content = file[Len(file)]
    /\ file[Len(file) - 1] # file[Len(file)]
    /\ file[1] # file[Len(file) - 1]

\* a call of update_logs or initialize_logs that failed to open the file
OpenFailedStep ==
    /\ status = "running"
    /\ lastOp' \in {"poll_ioerr", "init_ioerr"}
    /\ status' = "io_error"

\* C21: a poll or initial load that fails to open the file leaves log_lines,
\* filtered_logs, stats, scroll, follow_mode and filter_text as they were
C21_OpenFailureChangesNothing ==
    [][OpenFailedStep =>
          UNCHANGED <<log_lines, filtered_logs, stats, scroll, follow_mode,
                      filter_text>>]_vars

\* a poll failed to open the file while the store held entries under a filter
C21_Witness ==
    /\ lastOp = "poll_ioerr" /\ status = "io_error"
    /\ log_lines # <<>> /\ filter_text # <<>>
    /\ stats.total_entries = Len(log_lines)

\* update_logs is called (the view is not Help) and returns or fails
UpdateLogsStep ==
    /\ pc = "poll" /\ status = "running" /\ view_mode # "HelpView"
    /\ (pc' = "input" \/ status' # "running")

\* the call opened the file
OpensFile == lastOp' \in {"poll_ingest", "poll_nonew", "poll_ioerr", "poll_panic"}

\* C22: a call of update_logs less than 500 ms after the last completed read
\* (or App::new) returns Ok without opening the file and without changing
\* state; a call opens the file only after at least 500 ms, and a completed
\* read restarts the interval
C22_ReadsAtMostEvery500ms ==
    [][UpdateLogsStep =>
          /\ elapsed < 500 =>
                /\ lastOp' = "poll_throttled" /\ status' = "running"
                /\ UNCHANGED <<app_vars, elapsed, passed, known_len>>
          /\ OpensFile => elapsed >= 500
          /\ lastOp' \in {"poll_ingest", "poll_nonew"} => elapsed' = 0]_vars

\* a call 400 ms after startup returned without reading a file that has
\* lines the store lacks
C22_Witness ==
    /\ lastOp = "poll_throttled" /\ pc = "input"
    /\ elapsed = 400
    /\ Len(file) > Len(log_lines)
    /\ known_len = Len(file)

\* C23: whenever the log list is drawn, start_idx <= end_idx for every
\* height of the list area, so end_idx - start_idx does not underflow
C23_RenderWindowWellFormed ==
    (status = "running" /\ pc = "poll" /\ DrawsLogList) =>
        \A logs_height \in 0..MaxRows :
            start_idx(scroll) <= end_idx(scroll, logs_height, Len(filtered_logs))

\* C24: outside the filter view the selected tab agrees with the view:
\* 0 exactly for LogView, 1 for StatsView, 2 for HelpView
C24_TabAgreesWithView ==
    view_mode # "FilterView" =>
        /\ selected_tab = 0 <=> view_mode = "LogView"
        /\ selected_tab = 1 <=> view_mode = "StatsView"
        /\ selected_tab = 2 <=> view_mode = "HelpView"

\* every line of the file has been read by a completed read; each such read
\* hands the lines beyond the store length to add_log_line
all_lines_read == known_len = Len(file)

\* a completed read of update_logs starts from a store no longer than the
\* file was at the previous read, and stores when the file has grown
ReadStoresNewLines ==
    PollReadStep =>
        /\ Len(log_lines) <= known_len
        /\ Len(file) > known_len => lastOp' = "poll_ingest"

====
